---- MODULE Spec2Model ----
(***************************************************************************)
(* Model of scripts/analyze_migration_log.py: the LogAnalyzer pipeline     *)
(* (construct, parse_log, identify_milestones, _extract_metrics,           *)
(* calculate_durations, generate_report) and main's exit status.           *)
(*                                                                         *)
(* Text is modelled as TLA+ strings handled character by character, so     *)
(* substring containment, the timestamp pattern and the number patterns    *)
(* are computed on the characters of a line as Python computes them.       *)
(***************************************************************************)
EXTENDS Integers, Sequences, FiniteSets, TLC

VARIABLES
    pc,               \* position of main(): which call runs next
    file_exists,      \* whether log_file_path exists on disk
    stdout_encoding,  \* "utf8", or "ascii": sys.stdout cannot encode the report banners
    lines,            \* the log file, one string per line (without its newline)
    line_num,         \* parse_log's loop variable (1-based)
    events,           \* self.events
    event_idx,        \* identify_milestones' position in self.events
    milestones,       \* self.milestones: the dict's items in insertion order
    metrics,          \* self.metrics
    durations,        \* the dict calculate_durations returned to generate_report
    report,           \* what generate_report rendered
    output_written,   \* whether the report file was written
    error,            \* the exception main caught ("" when none)
    exit_code         \* the process's exit status (-1 while running)

vars == <<pc, file_exists, stdout_encoding, lines, line_num, events, event_idx,
          milestones, metrics, durations, report, output_written, error, exit_code>>

\* The longest log file explored, in lines.
MaxLines == 3

----------------------------------------------------------------------------
\* Python str and re primitives

Min(S) == CHOOSE x \in S : \A y \in S : x <= y

Char(s, i) == SubSeq(s, i, i)

DigitChars == {"0", "1", "2", "3", "4", "5", "6", "7", "8", "9"}

SpaceChars == {" ", "\t", "\n"}

LetterChars ==
    {"a", "b", "c", "d", "e", "f", "g", "h", "i", "j", "k", "l", "m",
     "n", "o", "p", "q", "r", "s", "t", "u", "v", "w", "x", "y", "z",
     "A", "B", "C", "D", "E", "F", "G", "H", "I", "J", "K", "L", "M",
     "N", "O", "P", "Q", "R", "S", "T", "U", "V", "W", "X", "Y", "Z"}

\* \d
IsDigit(c) == c \in DigitChars

DigitVal(c) ==
    CASE c = "0" -> 0 [] c = "1" -> 1 [] c = "2" -> 2 [] c = "3" -> 3
      [] c = "4" -> 4 [] c = "5" -> 5 [] c = "6" -> 6 [] c = "7" -> 7
      [] c = "8" -> 8 [] c = "9" -> 9

\* \s
IsSpace(c) == c \in SpaceChars

\* [\d.]
DigitOrDotChars == DigitChars \cup {"."}

\* [\w.]
WordOrDotChars == DigitChars \cup LetterChars \cup {"_", "."}

\* p occurs in s at index i
StartsAt(s, p, i) ==
    /\ i >= 1
    /\ i + Len(p) - 1 <= Len(s)
    /\ SubSeq(s, i, i + Len(p) - 1) = p

\* Python's `p in s`
Contains(s, p) == \E i \in 1..(Len(s) - Len(p) + 1) : StartsAt(s, p, i)

\* The end (exclusive) of the longest run of characters of the class cls from
\* index i: what a greedy [cls]* consumes.
RunEnd(cls, s, i) ==
    CHOOSE j \in i..(Len(s) + 1) :
        /\ j = Len(s) + 1 \/ Char(s, j) \notin cls
        /\ \A k \in i..(j - 1) : Char(s, k) \in cls

\* int(s) for a string of digits
RECURSIVE ToInt(_)
ToInt(s) ==
    IF Len(s) = 0 THEN 0
    ELSE ToInt(SubSeq(s, 1, Len(s) - 1)) * 10 + DigitVal(Char(s, Len(s)))

\* str.strip()
Strip(s) ==
    LET a == RunEnd(SpaceChars, s, 1)
    IN  IF a > Len(s) THEN ""
        ELSE SubSeq(s, a, CHOOSE j \in a..Len(s) :
                            /\ ~IsSpace(Char(s, j))
                            /\ \A k \in (j + 1)..Len(s) : IsSpace(Char(s, k)))

----------------------------------------------------------------------------
\* parse_log: the timestamp pattern and strptime

DigitsAt(s, i, n) == \A k \in i..(i + n - 1) : IsDigit(Char(s, k))

\* \d{2}/\d{2}/\d{2} at index i
IsSlashDate(s, i) ==
    /\ i + 7 <= Len(s)
    /\ DigitsAt(s, i, 2) /\ Char(s, i + 2) = "/"
    /\ DigitsAt(s, i + 3, 2) /\ Char(s, i + 5) = "/"
    /\ DigitsAt(s, i + 6, 2)

\* \d{4}-\d{2}-\d{2} at index i
IsHyphenDate(s, i) ==
    /\ i + 9 <= Len(s)
    /\ DigitsAt(s, i, 4) /\ Char(s, i + 4) = "-"
    /\ DigitsAt(s, i + 5, 2) /\ Char(s, i + 7) = "-"
    /\ DigitsAt(s, i + 8, 2)

\* \d{2}:\d{2}:\d{2} at index j
IsTime(s, j) ==
    /\ j + 7 <= Len(s)
    /\ DigitsAt(s, j, 2) /\ Char(s, j + 2) = ":"
    /\ DigitsAt(s, j + 3, 2) /\ Char(s, j + 5) = ":"
    /\ DigitsAt(s, j + 6, 2)

DateLen(s, i) == IF IsSlashDate(s, i) THEN 8 ELSE IF IsHyphenDate(s, i) THEN 10 ELSE 0

\* The whole pattern (date)\s+(time) matches at index i
TimestampAt(s, i) ==
    LET n == DateLen(s, i)
        j == RunEnd(SpaceChars, s, i + n)
    IN  n > 0 /\ j > i + n /\ IsTime(s, j)

\* re.search(r'(\d{2}/\d{2}/\d{2}|\d{4}-\d{2}-\d{2})\s+(\d{2}:\d{2}:\d{2})', line):
\* the leftmost match and its two groups.
timestamp_match(line) ==
    LET hits == {i \in 1..Len(line) : TimestampAt(line, i)}
    IN  IF hits = {} THEN [found |-> FALSE]
        ELSE LET i == Min(hits)
                 n == DateLen(line, i)
                 j == RunEnd(SpaceChars, line, i + n)
             IN  [found |-> TRUE,
                  date_str |-> SubSeq(line, i, i + n - 1),
                  time_str |-> SubSeq(line, j, j + 7)]

IsLeap(y) == (y % 4 = 0 /\ y % 100 # 0) \/ y % 400 = 0

DaysInMonth(y, m) ==
    IF m = 2 THEN (IF IsLeap(y) THEN 29 ELSE 28)
    ELSE IF m \in {4, 6, 9, 11} THEN 30 ELSE 31

\* %y: 69..99 are 1969..1999, 00..68 are 2000..2068
Pivot(yy) == IF yy >= 69 THEN 1900 + yy ELSE 2000 + yy

\* A mutant of ParseSlashDate: the date read day first, as "%d/%m/%y".
ParseSlashDateDayFirst(date_str) ==
    [year  |-> Pivot(ToInt(SubSeq(date_str, 7, 8))),
     month |-> ToInt(SubSeq(date_str, 4, 5)),
     day   |-> ToInt(SubSeq(date_str, 1, 2))]

\* the date fields of "%y/%m/%d"
ParseSlashDate(date_str) ==
    [year  |-> Pivot(ToInt(SubSeq(date_str, 1, 2))),
     month |-> ToInt(SubSeq(date_str, 4, 5)),
     day   |-> ToInt(SubSeq(date_str, 7, 8))]

\* the date fields of "%Y-%m-%d"
ParseHyphenDate(date_str) ==
    [year  |-> ToInt(SubSeq(date_str, 1, 4)),
     month |-> ToInt(SubSeq(date_str, 6, 7)),
     day   |-> ToInt(SubSeq(date_str, 9, 10))]

\* datetime.strptime(f"{date_str} {time_str}", fmt), the format chosen by
\* '/' in date_str; ok is FALSE where strptime raises ValueError.
strptime(date_str, time_str) ==
    LET d  == IF Contains(date_str, "/") THEN ParseSlashDate(date_str)
              ELSE ParseHyphenDate(date_str)
        hh == ToInt(SubSeq(time_str, 1, 2))
        mm == ToInt(SubSeq(time_str, 4, 5))
        ss == ToInt(SubSeq(time_str, 7, 8))
        valid == /\ d.year >= 1
                 /\ d.month \in 1..12
                 /\ d.day >= 1 /\ d.day <= DaysInMonth(d.year, d.month)
                 /\ hh <= 23 /\ mm <= 59 /\ ss <= 59
    IN  IF valid
        THEN [ok |-> TRUE,
              ts |-> [year |-> d.year, month |-> d.month, day |-> d.day,
                      hour |-> hh, minute |-> mm, second |-> ss]]
        ELSE [ok |-> FALSE]

----------------------------------------------------------------------------
\* the log files explored

DigitChar(n) == SubSeq("0123456789", n + 1, n + 1)

\* all sequences over S of length 0..n
SeqsUpTo(S, n) == UNION {[1..k -> S] : k \in 0..n}

\* Log messages holding one milestone phrase, or the phrases of two branches.
Messages == {
    "Spark session created",
    "Spark session created. Reading table: t",
    "SparkContext: Submitted application a",
    "Reading table: t",
    "DataFrame has 4 partitions",
    "Got job 0, Starting task 0.0",
    "Starting task 0.0" }

\* The messages the ".*" phrases were written for, messages holding the other
\* phrase of the same branches, and one holding a ".*" phrase itself.
WildcardMessages == {
    "Submitting 4 missing tasks",
    "ResultStage 0 finished",
    "validation checks passed",
    "Starting task 0.0",
    "Job 0 finished, took 1.5 s",
    "Row count validation passed",
    "Tasks: Submitting.*missing tasks" }

\* The k-th line's timestamp: a chronological file in the hyphen format, or a
\* reversed one in the slash format.
Stamp(order, k) ==
    IF order = "chronological" THEN "2024-12-24 21:30:0" \o DigitChar(k)
    ELSE "24/12/24 21:30:0" \o DigitChar(9 - k)

StampedLine(order, k, message) == Stamp(order, k) \o " INFO " \o message

\* Lines of a run's summary, without a timestamp, and two timestamped lines.
SummaryLines == {
    "Rows Read: 10",
    "Rows Written: 10",
    "Rows Written: 9",
    "Rows Skipped: 1",
    "Throughput: 5.5 rows/sec",
    "Throughput: 1.2.3 rows/sec",
    "2024-12-24 21:30:04 Spark session created",
    "2024-12-24 21:30:06 Job 0 finished, took 1.2.3 s" }

\* Lines with a timestamp in either format, valid or not, and one without.
TimestampLines == {
    "2024-12-24 21:30:04 a",
    "24/12/25 01:02:03 b",
    " 2024-02-29  23:59:59 c ",
    "x 99/01/31 00:00:00",
    "2023-02-29 10:00:00 d",
    "2024-13-01 10:00:00 then 2024-12-24 21:30:04",
    "24/12/25 24:00:00 e",
    "no timestamp 2024-12-24T21:30:04" }

\* the files of at most MaxLines lines whose messages are drawn from `messages`
StampedFiles(messages) ==
    {[k \in 1..Len(body) |-> StampedLine(order, k, body[k])] :
        body \in SeqsUpTo(messages, MaxLines), order \in {"chronological", "reversed"}}

\* every line of every file explored
ExploredLines ==
    {StampedLine(order, k, m) :
        order \in {"chronological", "reversed"}, k \in 1..MaxLines,
        m \in Messages \cup WildcardMessages}
    \cup SummaryLines \cup TimestampLines

----------------------------------------------------------------------------
\* datetime arithmetic

DaysBeforeYear(y) == (y - 1) * 365 + (y - 1) \div 4 - (y - 1) \div 100 + (y - 1) \div 400

RECURSIVE DaysBeforeMonth(_, _)
DaysBeforeMonth(y, m) ==
    IF m <= 1 THEN 0 ELSE DaysBeforeMonth(y, m - 1) + DaysInMonth(y, m - 1)

\* date.toordinal()
ToOrdinal(ts) == DaysBeforeYear(ts.year) + DaysBeforeMonth(ts.year, ts.month) + ts.day

SecondOfDay(ts) == ts.hour * 3600 + ts.minute * 60 + ts.second

\* A mutant of Elapsed: the operands of the subtraction swapped.
ElapsedSwapped(end, start) ==
    (ToOrdinal(start) - ToOrdinal(end)) * 86400 + (SecondOfDay(start) - SecondOfDay(end))

\* (end - start).total_seconds()
Elapsed(end, start) ==
    (ToOrdinal(end) - ToOrdinal(start)) * 86400 + (SecondOfDay(end) - SecondOfDay(start))

\* a <= b on datetimes
NotAfter(a, b) ==
    \/ ToOrdinal(a) < ToOrdinal(b)
    \/ ToOrdinal(a) = ToOrdinal(b) /\ SecondOfDay(a) <= SecondOfDay(b)

----------------------------------------------------------------------------
\* self.milestones: a dict, kept as its items in insertion order

Names(ms) == {ms[i].name : i \in 1..Len(ms)}

Has(ms, name) == name \in Names(ms)

Get(ms, name) == ms[CHOOSE i \in 1..Len(ms) : ms[i].name = name].ts

\* ms[name] = ts: a new key is appended, an existing key keeps its place
Put(ms, name, ts) ==
    IF Has(ms, name)
    THEN [i \in 1..Len(ms) |-> IF ms[i].name = name THEN [name |-> name, ts |-> ts] ELSE ms[i]]
    ELSE Append(ms, [name |-> name, ts |-> ts])

\* dict assignment and lookup for self.metrics and durations
Set(d, key, value) == (key :> value) @@ d

----------------------------------------------------------------------------
\* identify_milestones: the if/elif chain as its ordered list of branches.
\* any: the phrases joined by `or`; also: the phrases joined by `and`;
\* guarded: whether `name not in self.milestones` is part of the branch's own
\* condition (TRUE) or a nested `if` inside the branch (FALSE).

Rules == <<
    [name |-> "spark_session", any |-> {"Spark session created"}, also |-> {}, guarded |-> TRUE],
    [name |-> "app_submitted", any |-> {"SparkContext: Submitted application"}, also |-> {}, guarded |-> TRUE],
    [name |-> "reading_table", any |-> {"Reading table:"}, also |-> {}, guarded |-> TRUE],
    [name |-> "table_read", any |-> {"Successfully read table"}, also |-> {}, guarded |-> TRUE],
    [name |-> "partitions_calculated", any |-> {"DataFrame has"}, also |-> {"partitions"}, guarded |-> TRUE],
    [name |-> "migration_start", any |-> {"Starting migration for table"}, also |-> {}, guarded |-> TRUE],
    [name |-> "job_started", any |-> {"Starting job: foreachPartition", "Got job 0"}, also |-> {}, guarded |-> FALSE],
    [name |-> "first_task_started", any |-> {"Submitting.*missing tasks", "Starting task 0.0"}, also |-> {}, guarded |-> FALSE],
    [name |-> "first_copy_completed", any |-> {"COPY operation completed"}, also |-> {}, guarded |-> TRUE],
    [name |-> "first_partition_completed", any |-> {"Partition completed:"}, also |-> {}, guarded |-> TRUE],
    [name |-> "job_finished", any |-> {"Job 0 finished", "ResultStage.*finished"}, also |-> {}, guarded |-> FALSE],
    [name |-> "migration_complete", any |-> {"Migration completed for table"}, also |-> {}, guarded |-> TRUE],
    [name |-> "validation_start", any |-> {"Running validation"}, also |-> {}, guarded |-> TRUE],
    [name |-> "validation_complete", any |-> {"Row count validation passed", "validation.*passed"}, also |-> {}, guarded |-> FALSE],
    [name |-> "summary", any |-> {"Migration Summary"}, also |-> {}, guarded |-> TRUE] >>

RuleIds == 1..Len(Rules)

\* A mutant of PhraseIn: ".*" in a phrase read as a wildcard, as re.search would.
PhraseInAsRegex(phrase, line) ==
    LET dots == {k \in 1..(Len(phrase) - 1) : SubSeq(phrase, k, k + 1) = ".*"}
    IN  IF dots = {} THEN Contains(line, phrase)
        ELSE LET k    == Min(dots)
                 head == SubSeq(phrase, 1, k - 1)
                 tail == SubSeq(phrase, k + 2, Len(phrase))
             IN  \E i \in 1..Len(line) :
                    /\ StartsAt(line, head, i)
                    /\ \E j \in (i + Len(head))..Len(line) : StartsAt(line, tail, j)

\* `phrase in line`
PhraseIn(phrase, line) == Contains(line, phrase)

\* the phrase part of a branch's condition
PhraseHit(r, line) ==
    /\ \E p \in Rules[r].any : PhraseIn(p, line)
    /\ \A p \in Rules[r].also : PhraseIn(p, line)

\* A mutant of NotYetRecorded: the `name not in self.milestones` test dropped.
NotYetRecordedDropped(ms, name) == TRUE

\* `name not in self.milestones`
NotYetRecorded(ms, name) == ~Has(ms, name)

\* The phrase tests of each explored line, evaluated once: the branches whose
\* phrase part holds for the line as identify_milestones sees it (stripped).
LineHits == [line \in {Strip(l) : l \in ExploredLines} |-> {r \in RuleIds : PhraseHit(r, line)}]

\* the whole condition of branch r
BranchCondition(r, line, ms) ==
    r \in LineHits[line] /\ (Rules[r].guarded => NotYetRecorded(ms, Rules[r].name))

\* A mutant of TakenBranch: the last branch whose condition holds, not the first.
TakenBranchLast(line, ms) ==
    LET open == {r \in RuleIds : BranchCondition(r, line, ms)}
    IN  IF open = {} THEN 0 ELSE CHOOSE r \in open : \A q \in open : q <= r

\* the branch of the if/elif chain that runs for a line (0: none)
TakenBranch(line, ms) ==
    LET open == {r \in RuleIds : BranchCondition(r, line, ms)}
    IN  IF open = {} THEN 0 ELSE Min(open)

----------------------------------------------------------------------------
\* number patterns: re.search(label \s* / \s+ (group) [\s+ suffix], text)

\* The pattern matches at index i. min_ws: 0 for \s*, 1 for \s+ after the label;
\* suffix "": the pattern ends with the group.
GroupStart(text, i, label) == RunEnd(SpaceChars, text, i + Len(label))

PatternAt(text, i, label, min_ws, cls, suffix) ==
    LET j == GroupStart(text, i, label)
        k == RunEnd(cls, text, j)
        l == RunEnd(SpaceChars, text, k)
    IN  /\ StartsAt(text, label, i)
        /\ j >= i + Len(label) + min_ws
        /\ k > j
        /\ suffix # "" => (l > k /\ StartsAt(text, suffix, l))

\* the leftmost match's group
Search(text, label, min_ws, cls, suffix) ==
    LET hits == {i \in 1..Len(text) : PatternAt(text, i, label, min_ws, cls, suffix)}
    IN  IF hits = {} THEN [found |-> FALSE]
        ELSE LET j == GroupStart(text, Min(hits), label)
             IN  [found |-> TRUE, group |-> SubSeq(text, j, RunEnd(cls, text, j) - 1)]

\* float(s) for s matching [\d.]+ : ValueError unless s holds a digit and at
\* most one point. The value is kept as its decimal digits.
float(s) ==
    LET points == {k \in 1..Len(s) : Char(s, k) = "."}
    IN  IF Cardinality(points) > 1 \/ Cardinality(points) = Len(s)
        THEN [ok |-> FALSE]
        ELSE IF points = {}
        THEN [ok |-> TRUE, value |-> [units |-> ToInt(s), frac |-> ""]]
        ELSE LET k == CHOOSE k \in points : TRUE
             IN  [ok |-> TRUE,
                  value |-> [units |-> ToInt(SubSeq(s, 1, k - 1)),
                             frac  |-> SubSeq(s, k + 1, Len(s))]]


\* re.search(r'(\d+)\s+partitions', line)
partition_match(line) ==
    LET MatchAt(i) == LET k == RunEnd(DigitChars, line, i)
                          l == RunEnd(SpaceChars, line, k)
                      IN  IsDigit(Char(line, i)) /\ l > k /\ StartsAt(line, "partitions", l)
        hits == {i \in 1..Len(line) : MatchAt(i)}
    IN  IF hits = {} THEN [found |-> FALSE]
        ELSE [found |-> TRUE,
              group |-> SubSeq(line, Min(hits), RunEnd(DigitChars, line, Min(hits)) - 1)]

----------------------------------------------------------------------------
\* calculate_durations

Empty == [k \in {} |-> 0]

\* A mutant of calculate_durations: the fallback pair of 'migration' is used
\* whenever it is present, also when job_started and job_finished both are.
calculate_durations_fallback_first(ms) ==
    LET pair(key, end, start) ==
            IF Has(ms, start) /\ Has(ms, end)
            THEN key :> Elapsed(Get(ms, end), Get(ms, start)) ELSE Empty
    IN  pair("init", "partitions_calculated", "spark_session")
        @@ pair("planning", "partitions_calculated", "reading_table")
        @@ pair("migration", "migration_complete", "first_task_started")
        @@ pair("migration", "job_finished", "job_started")
        @@ pair("validation", "validation_complete", "validation_start")
        @@ pair("total", "migration_complete", "spark_session")

calculate_durations(ms) ==
    LET pair(key, end, start) ==
            IF Has(ms, start) /\ Has(ms, end)
            THEN key :> Elapsed(Get(ms, end), Get(ms, start)) ELSE Empty
    IN  pair("init", "partitions_calculated", "spark_session")
        @@ pair("planning", "partitions_calculated", "reading_table")
        @@ pair("migration", "job_finished", "job_started")
        @@ pair("migration", "migration_complete", "first_task_started")
        @@ pair("validation", "validation_complete", "validation_start")
        @@ pair("total", "migration_complete", "spark_session")

----------------------------------------------------------------------------
\* generate_report: the parts of the document that depend on the run

\* '%H:%M:%S'
Clock(ts) ==
    DigitChar(ts.hour \div 10) \o DigitChar(ts.hour % 10) \o ":"
    \o DigitChar(ts.minute \div 10) \o DigitChar(ts.minute % 10) \o ":"
    \o DigitChar(ts.second \div 10) \o DigitChar(ts.second % 10)

Upper(c) ==
    LET lower == "abcdefghijklmnopqrstuvwxyz"
        at == {k \in 1..26 : Char(lower, k) = c}
    IN  IF at = {} THEN c ELSE Char("ABCDEFGHIJKLMNOPQRSTUVWXYZ", CHOOSE k \in at : TRUE)

\* milestone_name.replace('_', ' ').title(), for a lower-case name
RECURSIVE Title(_)
Title(name) ==
    IF Len(name) = 0 THEN ""
    ELSE LET n    == Len(name)
             c    == Char(name, n)
             prev == IF n = 1 THEN "_" ELSE Char(name, n - 1)
         IN  Title(SubSeq(name, 1, n - 1))
             \o (IF c = "_" THEN " " ELSE IF prev = "_" THEN Upper(c) ELSE c)

\* the title of each milestone name, evaluated once
EventNames == [name \in {Rules[r].name : r \in RuleIds} |-> Title(name)]

\* A mutant of SortedByTime: the items left in the dict's insertion order.
SortedByTimeUnsorted(ms) == ms

\* sorted(self.milestones.items(), key=lambda x: x[1]): a stable sort
SortedByTime(ms) ==
    LET day == [i \in 1..Len(ms) |-> ToOrdinal(ms[i].ts)]
        sec == [i \in 1..Len(ms) |-> SecondOfDay(ms[i].ts)]
        Before(j, i) == \/ day[j] < day[i]
                        \/ day[j] = day[i] /\ sec[j] < sec[i]
                        \/ day[j] = day[i] /\ sec[j] = sec[i] /\ j < i
        rank == [i \in 1..Len(ms) |-> 1 + Cardinality({j \in 1..Len(ms) : Before(j, i)})]
    IN  [p \in 1..Len(ms) |-> ms[CHOOSE i \in 1..Len(ms) : rank[i] = p]]

\* the Detailed Timeline's data rows
Timeline(ms) ==
    IF ~Has(ms, "spark_session") /\ ~Has(ms, "app_submitted") THEN <<>>
    ELSE LET start_time == IF Has(ms, "spark_session") THEN Get(ms, "spark_session")
                           ELSE Get(ms, "app_submitted")
             sorted == SortedByTime(ms)
         IN  [p \in 1..Len(sorted) |->
                [event     |-> EventNames[sorted[p].name],
                 timestamp |-> Clock(sorted[p].ts),
                 duration  |-> Elapsed(sorted[p].ts, start_time)]]

\* the Phase Breakdown Table's data rows
PhaseRows(ms, mt, du) ==
    LET lookup(key) == IF key \in DOMAIN du THEN du[key] ELSE 0
        init_time == IF Has(ms, "spark_session") THEN lookup("init") ELSE 0
        migration_time == IF "job_duration_seconds" \in DOMAIN mt
                          THEN mt["job_duration_seconds"] ELSE lookup("migration")
        validation_time == IF lookup("validation") = 0
                           THEN [units |-> 0, frac |-> "1"] ELSE lookup("validation")
    IN  << [phase |-> "Phase 0", time |-> init_time],
           [phase |-> "Phase 1", time |-> lookup("planning")],
           [phase |-> "Phase 2-4", time |-> migration_time],
           [phase |-> "Phase 5", time |-> validation_time] >>

\* A mutant of Verdict: the counts compared after the skipped rows are added.
VerdictWithSkipped(mt) ==
    LET skipped == IF "rows_skipped" \in DOMAIN mt THEN mt["rows_skipped"] ELSE 0
    IN  IF mt["rows_read"] = mt["rows_written"] + skipped THEN "PASSED" ELSE "FAILED"

\* the verdict line of the Validation Results section
Verdict(mt) == IF mt["rows_read"] = mt["rows_written"] THEN "PASSED" ELSE "FAILED"

\* the Validation Results section
Validation(mt) ==
    IF "rows_read" \in DOMAIN mt /\ "rows_written" \in DOMAIN mt
    THEN [present |-> TRUE, rows_read |-> mt["rows_read"],
          rows_written |-> mt["rows_written"],
          shows_skipped |-> "rows_skipped" \in DOMAIN mt,
          verdict |-> Verdict(mt)]
    ELSE [present |-> FALSE]

NoReport == [rendered |-> FALSE]

----------------------------------------------------------------------------
\* the run: main() and the LogAnalyzer methods it calls

\* LogAnalyzer(args.log_file)
LogAnalyzer_init ==
    /\ pc = "start"
    /\ IF file_exists
       THEN /\ pc' = "parse_log"
            /\ error' = error
       ELSE /\ pc' = "raised"
            /\ error' = "FileNotFoundError"
    /\ events' = <<>>
    /\ milestones' = <<>>
    /\ metrics' = Empty
    /\ UNCHANGED <<file_exists, stdout_encoding, lines, line_num, event_idx,
                   durations, report, output_written, exit_code>>

\* parse_log: one iteration of the loop over the file's lines
parse_log_line ==
    /\ pc = "parse_log"
    /\ line_num <= Len(lines)
    /\ LET line == lines[line_num]
           m    == timestamp_match(line)
           t    == IF m.found THEN strptime(m.date_str, m.time_str) ELSE [ok |-> FALSE]
       IN  events' = IF t.ok
                     THEN Append(events, [ts |-> t.ts, line_num |-> line_num,
                                          line |-> Strip(line)])
                     ELSE events
    /\ line_num' = line_num + 1
    /\ UNCHANGED <<pc, file_exists, stdout_encoding, lines, event_idx, milestones,
                   metrics, durations, report, output_written, error, exit_code>>

\* parse_log returns; identify_milestones starts
parse_log_end ==
    /\ pc = "parse_log"
    /\ line_num > Len(lines)
    /\ pc' = "identify_milestones"
    /\ event_idx' = 1
    /\ UNCHANGED <<file_exists, stdout_encoding, lines, line_num, events, milestones,
                   metrics, durations, report, output_written, error, exit_code>>

\* identify_milestones: one iteration of the loop over self.events
identify_milestones_event ==
    /\ pc = "identify_milestones"
    /\ event_idx <= Len(events)
    /\ LET ev   == events[event_idx]
           r    == TakenBranch(ev.line, milestones)
           name == Rules[r].name
           records == r # 0 /\ (Rules[r].guarded \/ NotYetRecorded(milestones, name))
           parts == partition_match(ev.line)
           rows  == Search(ev.line, "Rows copied:", 0, DigitChars, "")
           took  == Search(ev.line, "took", 1, DigitOrDotChars, "s")
           secs  == IF took.found THEN float(took.group) ELSE [ok |-> FALSE]
       IN  /\ milestones' = IF records THEN Put(milestones, name, ev.ts) ELSE milestones
           /\ metrics' =
                IF ~records THEN metrics
                ELSE IF name = "partitions_calculated" /\ parts.found
                THEN Set(metrics, "partition_count", ToInt(parts.group))
                ELSE IF name = "first_copy_completed" /\ rows.found
                THEN Set(metrics, "first_copy_rows", ToInt(rows.group))
                ELSE IF name = "job_finished" /\ took.found /\ secs.ok
                THEN Set(metrics, "job_duration_seconds", secs.value)
                ELSE metrics
           /\ IF records /\ name = "job_finished" /\ took.found /\ ~secs.ok
              THEN pc' = "raised" /\ error' = "ValueError"
              ELSE UNCHANGED <<pc, error>>
    /\ event_idx' = event_idx + 1
    /\ UNCHANGED <<file_exists, stdout_encoding, lines, line_num, events,
                   durations, report, output_written, exit_code>>

\* f.read(): the file's lines, each with its newline
RECURSIVE Content(_)
Content(ls) == IF ls = <<>> THEN "" ELSE Head(ls) \o "\n" \o Content(Tail(ls))

\* _extract_metrics, called when the loop of identify_milestones ends
extract_metrics ==
    /\ pc = "identify_milestones"
    /\ event_idx > Len(events)
    /\ LET content == Content(lines)
           int_field(mt, key, label, suffix) ==
               LET m == Search(content, label, 0, DigitChars, suffix)
               IN  IF m.found THEN Set(mt, key, ToInt(m.group)) ELSE mt
           rate  == Search(content, "Throughput:", 0, DigitOrDotChars, "rows/sec")
           value == IF rate.found THEN float(rate.group) ELSE [ok |-> FALSE]
           table == Search(content, "Migrating table:", 0, WordOrDotChars, "")
           m1 == int_field(metrics, "rows_read", "Rows Read:", "")
           m2 == int_field(m1, "rows_written", "Rows Written:", "")
           m3 == int_field(m2, "rows_skipped", "Rows Skipped:", "")
           m4 == IF rate.found /\ value.ok THEN Set(m3, "throughput", value.value) ELSE m3
           m5 == int_field(m4, "elapsed_time_seconds", "Elapsed Time:", "second")
           m6 == int_field(m5, "partitions_completed", "Partitions Completed:", "")
           m7 == int_field(m6, "partitions_failed", "Partitions Failed:", "")
           m8 == IF table.found THEN Set(m7, "table_name", table.group) ELSE m7
       IN  IF rate.found /\ ~value.ok
           THEN /\ metrics' = m3
                /\ pc' = "raised"
                /\ error' = "ValueError"
           ELSE /\ metrics' = m8
                /\ pc' = "generate_report"
                /\ error' = error
    /\ UNCHANGED <<file_exists, stdout_encoding, lines, line_num, events, event_idx,
                   milestones, durations, report, output_written, exit_code>>

\* generate_report: the durations, the document, the file written, and the
\* banner printed after the write
generate_report ==
    /\ pc = "generate_report"
    /\ durations' = calculate_durations(milestones)
    /\ report' = [rendered   |-> TRUE,
                  phase_rows |-> PhaseRows(milestones, metrics, durations'),
                  timeline   |-> Timeline(milestones),
                  validation |-> Validation(metrics)]
    /\ output_written' = TRUE
    /\ IF stdout_encoding = "utf8"
       THEN pc' = "main_finish" /\ error' = error
       ELSE pc' = "raised" /\ error' = "UnicodeEncodeError"
    /\ UNCHANGED <<file_exists, stdout_encoding, lines, line_num, events, event_idx,
                   milestones, metrics, exit_code>>

\* main: the two prints after generate_report, and the normal return
main_finish ==
    /\ pc = "main_finish"
    /\ IF stdout_encoding = "utf8"
       THEN pc' = "exited" /\ exit_code' = 0 /\ error' = error
       ELSE pc' = "raised" /\ exit_code' = exit_code /\ error' = "UnicodeEncodeError"
    /\ UNCHANGED <<file_exists, stdout_encoding, lines, line_num, events, event_idx,
                   milestones, metrics, durations, report, output_written>>

\* main: except Exception, the message on stderr, sys.exit(1)
main_except ==
    /\ pc = "raised"
    /\ pc' = "exited"
    /\ exit_code' = 1
    /\ UNCHANGED <<file_exists, stdout_encoding, lines, line_num, events, event_idx,
                   milestones, metrics, durations, report, output_written, error>>

Next ==
    \/ LogAnalyzer_init
    \/ parse_log_line
    \/ parse_log_end
    \/ identify_milestones_event
    \/ extract_metrics
    \/ generate_report
    \/ main_finish
    \/ main_except

----------------------------------------------------------------------------
\* the specifications

\* the state before main() runs on a file of `files`
Start(files, encodings) ==
    /\ pc = "start"
    /\ \/ file_exists = TRUE /\ lines \in files
       \/ file_exists = FALSE /\ lines = <<>>
    /\ stdout_encoding \in encodings
    /\ line_num = 1
    /\ events = <<>>
    /\ event_idx = 1
    /\ milestones = <<>>
    /\ metrics = Empty
    /\ durations = Empty
    /\ report = NoReport
    /\ output_written = FALSE
    /\ error = ""
    /\ exit_code = -1

Init == Start(StampedFiles(Messages), {"utf8"})

Spec == Init /\ [][Next]_vars

\* runs on the files written for the ".*" phrases
InitWildcard == Start(StampedFiles(WildcardMessages), {"utf8"})

SpecWildcard == InitWildcard /\ [][Next]_vars

\* runs on summary lines
InitSummary == Start(SeqsUpTo(SummaryLines, MaxLines), {"utf8"})

SpecSummary == InitSummary /\ [][Next]_vars

\* runs on summary lines, on a console that can or cannot encode the banners
InitConsole == Start(SeqsUpTo(SummaryLines, MaxLines), {"utf8", "ascii"})

SpecConsole == InitConsole /\ [][Next]_vars

\* runs on lines with valid and invalid timestamps
InitTimestamps == Start(SeqsUpTo(TimestampLines, MaxLines), {"utf8"})

SpecTimestamps == InitTimestamps /\ [][Next]_vars

\* calculate_durations applied to every dict of the milestones it reads, each
\* absent or set to one of two datetimes either side of a change of year
DurationNames ==
    <<"spark_session", "reading_table", "partitions_calculated", "job_started",
      "first_task_started", "job_finished", "migration_complete",
      "validation_start", "validation_complete">>

DurationTimes ==
    {[year |-> 2023, month |-> 12, day |-> 31, hour |-> 23, minute |-> 59, second |-> 58],
     [year |-> 2024, month |-> 1, day |-> 1, hour |-> 0, minute |-> 0, second |-> 3]}

RECURSIVE DictsOver(_)
DictsOver(names) ==
    IF names = <<>> THEN {<<>>}
    ELSE LET rest == DictsOver(SubSeq(names, 1, Len(names) - 1))
             name == names[Len(names)]
         IN  rest \cup {Append(d, [name |-> name, ts |-> t]) : d \in rest, t \in DurationTimes}

InitDurations ==
    /\ pc = "generate_report"
    /\ file_exists = TRUE
    /\ stdout_encoding = "utf8"
    /\ lines = <<>>
    /\ line_num = 1
    /\ events = <<>>
    /\ event_idx = 1
    /\ milestones \in DictsOver(DurationNames)
    /\ metrics = Empty
    /\ durations = Empty
    /\ report = NoReport
    /\ output_written = FALSE
    /\ error = ""
    /\ exit_code = -1

NextDurations == generate_report \/ main_finish

SpecDurations == InitDurations /\ [][NextDurations]_vars


----------------------------------------------------------------------------
\* properties of identify_milestones

\* identify_milestones is about to handle events[event_idx]
Scanning == pc = "identify_milestones" /\ event_idx <= Len(events)

\* The line holds the phrases of branch r (whatever has been recorded so far).
HoldsPhrase(r, line) == r \in LineHits[line]

\* Branch q's own condition holds for the line: its phrases are there and, for
\* a branch that tests it in its condition, its milestone is not yet recorded.
Fires(q, line, ms) == HoldsPhrase(q, line) /\ (Rules[q].guarded => ~Has(ms, Rules[q].name))

\* the milestones this step records
NewNames == Names(milestones') \ Names(milestones)

RuleOf(name) == CHOOSE r \in RuleIds : Rules[r].name = name

\* C1 as stated: every milestone is recorded once, with the timestamp of the
\* first line, in file order, that holds one of its phrases.
C1_FirstLineWithPhrase ==
    /\ Cardinality(Names(milestones)) = Len(milestones)
    /\ \A i \in 1..Len(milestones) :
          LET with == {k \in 1..Len(events) :
                          HoldsPhrase(RuleOf(milestones[i].name), events[k].line)}
          IN  with # {} /\ milestones[i].ts = events[Min(with)].ts

\* C1 amended: a recorded milestone is never overwritten or dropped, and a
\* milestone is recorded, with the line's timestamp, exactly at the first line
\* that holds one of its phrases and on which no earlier branch of the chain
\* fires.
C1_FirstFiringLine ==
    [][ /\ Len(milestones') >= Len(milestones)
        /\ \A i \in 1..Len(milestones) : milestones'[i] = milestones[i]
        /\ Cardinality(Names(milestones')) = Len(milestones')
        /\ ~Scanning => milestones' = milestones
        /\ Scanning =>
              \A r \in RuleIds :
                 LET line == events[event_idx].line
                     name == Rules[r].name
                     earlier == \E q \in 1..(r - 1) : Fires(q, line, milestones)
                 IN  /\ name \in NewNames <=>
                          (HoldsPhrase(r, line) /\ ~Has(milestones, name) /\ ~earlier)
                     /\ name \in NewNames => Get(milestones', name) = events[event_idx].ts
      ]_vars

\* C1's case: a milestone whose timestamp is not that of the first line holding
\* its phrase, because an earlier branch took that line.
C1_Witness ==
    /\ pc = "generate_report"
    /\ \E i \in 1..Len(milestones) :
          LET with == {k \in 1..Len(events) :
                          HoldsPhrase(RuleOf(milestones[i].name), events[k].line)}
          IN  milestones[i].ts # events[Min(with)].ts

\* C2 as stated: a line that holds the phrases of two branches never records
\* the milestone of the later one, and no line records two milestones.
C2_LaterBranchNeverRecords ==
    [][ Scanning =>
          /\ Cardinality(NewNames) <= 1
          /\ \A r \in RuleIds : \A q \in 1..(r - 1) :
                (HoldsPhrase(q, events[event_idx].line)
                    /\ HoldsPhrase(r, events[event_idx].line))
                => Rules[r].name \notin NewNames
      ]_vars

\* C2 amended: no line records two milestones, and a line records the
\* milestone of a branch only if no earlier branch fires on it: an earlier
\* branch whose phrase the line holds shuts the later one out unless that
\* earlier branch tests `not in self.milestones` in its condition and its
\* milestone is already recorded.
C2_FirstFiringBranchOnly ==
    [][ Scanning =>
          /\ Cardinality(NewNames) <= 1
          /\ \A r \in RuleIds : \A q \in 1..(r - 1) :
                LET line == events[event_idx].line
                IN  (HoldsPhrase(q, line) /\ Rules[r].name \in NewNames)
                    => (Rules[q].guarded /\ Has(milestones, Rules[q].name))
      ]_vars

\* C2's case: a line holding the phrases of two branches has recorded the
\* later branch's milestone (the earlier one was recorded by a line before it).
C2_Witness ==
    /\ pc = "generate_report"
    /\ \E k \in 1..Len(events) : \E i \in 1..Len(milestones) :
          /\ milestones[i].ts = events[k].ts
          /\ HoldsPhrase(RuleOf(milestones[i].name), events[k].line)
          /\ \E q \in 1..(RuleOf(milestones[i].name) - 1) : HoldsPhrase(q, events[k].line)

----------------------------------------------------------------------------
\* properties of calculate_durations and of the timeline

Position(ms, name) == CHOOSE i \in 1..Len(ms) : ms[i].name = name

\* the timestamps of the timestamped lines are non-decreasing in file order
Chronological == \A k \in 1..(Len(events) - 1) : NotAfter(events[k].ts, events[k + 1].ts)

\* the milestones a duration is taken between, as <<end, start>>
PairOf(key, ms) ==
    CASE key = "init" -> <<"partitions_calculated", "spark_session">>
      [] key = "planning" -> <<"partitions_calculated", "reading_table">>
      [] key = "validation" -> <<"validation_complete", "validation_start">>
      [] key = "total" -> <<"migration_complete", "spark_session">>
      [] key = "migration" ->
            IF Has(ms, "job_started") /\ Has(ms, "job_finished")
            THEN <<"job_finished", "job_started">>
            ELSE <<"migration_complete", "first_task_started">>

\* C4 as stated: in a chronological file every duration is non-negative,
\* whatever order the milestone phrases appear in.
C4_NonNegative ==
    (report.rendered /\ Chronological) =>
        \A key \in DOMAIN durations : durations[key] >= 0

\* C4 amended: in a chronological file a duration is non-negative when its
\* start milestone was recorded on an earlier line than its end milestone, and
\* is not positive when the end milestone was recorded first.
C4_NonNegativeInOrder ==
    (report.rendered /\ Chronological) =>
        \A key \in DOMAIN durations :
            LET end   == PairOf(key, milestones)[1]
                start == PairOf(key, milestones)[2]
            IN  IF Position(milestones, start) < Position(milestones, end)
                THEN durations[key] >= 0 ELSE durations[key] <= 0

\* C4's case: a chronological file whose report holds a negative duration.
C4_Witness ==
    /\ report.rendered /\ Chronological
    /\ \E key \in DOMAIN durations : durations[key] < 0

StartNames == {"spark_session", "app_submitted"} \cap Names(milestones)

\* the earliest of the start milestones recorded
EarliestStart ==
    Get(milestones, CHOOSE n \in StartNames :
                       \A o \in StartNames : NotAfter(Get(milestones, n), Get(milestones, o)))

\* the seconds from datetime a to datetime b
SecondsFrom(a, b) ==
    (ToOrdinal(b) - ToOrdinal(a)) * 86400 + SecondOfDay(b) - SecondOfDay(a)

RowsInTimeOrder ==
    \A p \in 1..(Len(report.timeline) - 1) :
        \E i, j \in 1..Len(milestones) :
            /\ report.timeline[p].event = Title(milestones[i].name)
            /\ report.timeline[p + 1].event = Title(milestones[j].name)
            /\ NotAfter(milestones[i].ts, milestones[j].ts)

OneRowPerMilestone ==
    /\ Len(report.timeline) = Len(milestones)
    /\ \A i \in 1..Len(milestones) :
          \E p \in 1..Len(report.timeline) :
              /\ report.timeline[p].event = Title(milestones[i].name)
              /\ report.timeline[p].timestamp = Clock(milestones[i].ts)

\* C5 as stated: the timeline has one row for every recorded milestone, in
\* non-decreasing timestamp order, each offset being the milestone's timestamp
\* minus the earliest available start milestone, so never negative.
C5_RowPerMilestoneFromEarliest ==
    report.rendered =>
        /\ OneRowPerMilestone
        /\ RowsInTimeOrder
        /\ \A p \in 1..Len(report.timeline) :
              \E i \in 1..Len(milestones) :
                  /\ report.timeline[p].event = Title(milestones[i].name)
                  /\ report.timeline[p].duration = Elapsed(milestones[i].ts, EarliestStart)

\* C5 amended: when neither spark_session nor app_submitted is recorded the
\* timeline has no rows; otherwise it has one row for every recorded
\* milestone, in non-decreasing timestamp order, and each offset is the
\* milestone's timestamp minus spark_session's when that is recorded and minus
\* app_submitted's otherwise (an offset is negative for a milestone earlier
\* than that start).
C5_RowPerMilestoneFromPreferredStart ==
    report.rendered =>
        IF StartNames = {} THEN report.timeline = <<>>
        ELSE /\ OneRowPerMilestone
             /\ RowsInTimeOrder
             /\ \A p \in 1..Len(report.timeline) :
                   \E i \in 1..Len(milestones) :
                       /\ report.timeline[p].event = Title(milestones[i].name)
                       /\ report.timeline[p].duration =
                             SecondsFrom(IF Has(milestones, "spark_session")
                                         THEN Get(milestones, "spark_session")
                                         ELSE Get(milestones, "app_submitted"),
                                         milestones[i].ts)

\* C5's case: a rendered timeline with rows out of insertion order and a row
\* before the start it is measured from.
C5_Witness ==
    /\ report.rendered
    /\ Len(report.timeline) >= 2
    /\ report.timeline[1].event # Title(milestones[1].name)
    /\ \E p \in 1..Len(report.timeline) : report.timeline[p].duration < 0

\* the duration expected between two milestones of a dict, when both are there
Both(ms, start, end) == Has(ms, start) /\ Has(ms, end)

Between(ms, start, end) == SecondsFrom(Get(ms, start), Get(ms, end))

\* C3: a duration's key is returned exactly when both milestones of its pair
\* are present, with the end timestamp minus the start timestamp in seconds;
\* migration is job_finished - job_started when both are present, otherwise
\* migration_complete - first_task_started when both are present, otherwise
\* absent.
C3_DurationsOfPairs ==
    report.rendered =>
        LET ms == milestones
            Is(key, start, end) ==
                /\ (key \in DOMAIN durations) <=> Both(ms, start, end)
                /\ Both(ms, start, end) => durations[key] = Between(ms, start, end)
        IN  /\ DOMAIN durations \subseteq {"init", "planning", "migration", "validation", "total"}
            /\ Is("init", "spark_session", "partitions_calculated")
            /\ Is("planning", "reading_table", "partitions_calculated")
            /\ Is("validation", "validation_start", "validation_complete")
            /\ Is("total", "spark_session", "migration_complete")
            /\ IF Both(ms, "job_started", "job_finished")
               THEN /\ "migration" \in DOMAIN durations
                    /\ durations["migration"] = Between(ms, "job_started", "job_finished")
               ELSE Is("migration", "first_task_started", "migration_complete")

\* C3's case: both pairs of 'migration' are present and differ, and a duration
\* is negative.
C3_Witness ==
    /\ report.rendered
    /\ Both(milestones, "job_started", "job_finished")
    /\ Both(milestones, "first_task_started", "migration_complete")
    /\ Between(milestones, "job_started", "job_finished")
          # Between(milestones, "first_task_started", "migration_complete")
    /\ "init" \notin DOMAIN durations
    /\ "validation" \in DOMAIN durations /\ durations["validation"] < 0

----------------------------------------------------------------------------
\* properties of the validation section and of the exit status

\* the count a summary line of the explored files states
RowsReadIn == ("Rows Read: 10" :> 10)

RowsWrittenIn == ("Rows Written: 10" :> 10) @@ ("Rows Written: 9" :> 9)

\* the count of the first line of the file that states one
FirstStated(table) ==
    table[lines[Min({k \in 1..Len(lines) : lines[k] \in DOMAIN table})]]

Stated(table) == \E k \in 1..Len(lines) : lines[k] \in DOMAIN table

\* C6: the report has a Validation Results section exactly when a 'Rows Read'
\* and a 'Rows Written' count were both extracted; its verdict is PASSED when
\* the two counts are equal and FAILED when they differ, whatever the rows
\* skipped, the milestones and the durations.
C6_ValidationVerdict ==
    report.rendered =>
        /\ report.validation.present <=> (Stated(RowsReadIn) /\ Stated(RowsWrittenIn))
        /\ report.validation.present =>
              /\ report.validation.rows_read = FirstStated(RowsReadIn)
              /\ report.validation.rows_written = FirstStated(RowsWrittenIn)
              /\ report.validation.verdict =
                    IF FirstStated(RowsReadIn) = FirstStated(RowsWrittenIn)
                    THEN "PASSED" ELSE "FAILED"

\* C6's case: counts that differ by exactly the rows skipped: FAILED.
C6_Witness ==
    /\ report.rendered
    /\ report.validation.present
    /\ report.validation.shows_skipped
    /\ report.validation.rows_read = report.validation.rows_written + metrics["rows_skipped"]
    /\ report.validation.verdict = "FAILED"

\* no line of the file holds a timestamp
NoTimestampedLine ==
    \A k \in 1..Len(lines) :
        lines[k] \in {"Rows Read: 10", "Rows Written: 10", "Rows Written: 9",
                      "Rows Skipped: 1", "Throughput: 5.5 rows/sec",
                      "Throughput: 1.2.3 rows/sec"}

\* C7: on an existing file with no timestamped line (and a console that can
\* print the banners) no stage raises, the events, milestones and durations are
\* empty, the timeline has no data rows, the report is written and the exit
\* code is 0.
C7_NoTimestampsNoCrash ==
    (file_exists /\ NoTimestampedLine /\ stdout_encoding = "utf8") =>
        /\ error = ""
        /\ pc # "raised"
        /\ events = <<>> /\ milestones = <<>> /\ durations = Empty
        /\ pc = "exited" =>
              /\ exit_code = 0
              /\ output_written
              /\ report.rendered /\ report.timeline = <<>>

\* C8: a missing input file fails at construction before any other step, no
\* output is written and the exit code is 1; in every run the exit code is 0
\* exactly when the report file was written, and 1 whenever a stage raised.
C8_ExitCodeTellsReportWritten ==
    /\ ~file_exists =>
          /\ pc \in {"start", "raised", "exited"}
          /\ events = <<>> /\ milestones = <<>> /\ metrics = Empty
          /\ ~report.rendered /\ ~output_written
          /\ pc = "exited" => exit_code = 1
    /\ pc = "exited" => (exit_code = 0 <=> output_written)
    /\ (pc = "exited" /\ error # "") => exit_code = 1

----------------------------------------------------------------------------
\* properties of parse_log

At(y, mo, d, h, mi, sec) ==
    [year |-> y, month |-> mo, day |-> d, hour |-> h, minute |-> mi, second |-> sec]

\* the date and time each explored line encodes, for the lines whose timestamp
\* is a valid date and time
Encoded ==
    ("2024-12-24 21:30:04 a" :> At(2024, 12, 24, 21, 30, 4))
    @@ ("24/12/25 01:02:03 b" :> At(2024, 12, 25, 1, 2, 3))
    @@ (" 2024-02-29  23:59:59 c " :> At(2024, 2, 29, 23, 59, 59))
    @@ ("x 99/01/31 00:00:00" :> At(1999, 1, 31, 0, 0, 0))

\* the text of those lines without the white space around it
Stripped ==
    ("2024-12-24 21:30:04 a" :> "2024-12-24 21:30:04 a")
    @@ ("24/12/25 01:02:03 b" :> "24/12/25 01:02:03 b")
    @@ (" 2024-02-29  23:59:59 c " :> "2024-02-29  23:59:59 c")
    @@ ("x 99/01/31 00:00:00" :> "x 99/01/31 00:00:00")

\* the lines parse_log has handled
Handled == IF pc = "start" THEN 0 ELSE line_num - 1

\* C9: the event list is the order-preserving subsequence of the lines whose
\* timestamp, in either format, is a valid date and time; each event holds the
\* line's 1-based number and the date and time written in it; a line with no
\* timestamp or an unparseable one is skipped without raising. (A line's
\* timestamp is the leftmost text of the pattern's shape.)
C9_EventsAreValidLines ==
    file_exists =>
        /\ error = "" /\ pc # "raised"
        /\ \A e \in 1..(Len(events) - 1) : events[e].line_num < events[e + 1].line_num
        /\ \A e \in 1..Len(events) : events[e].line_num \in 1..Handled
        /\ \A k \in 1..Handled :
              LET of == {e \in 1..Len(events) : events[e].line_num = k}
              IN  IF lines[k] \in DOMAIN Encoded
                  THEN \E e \in of :
                          /\ of = {e}
                          /\ events[e].ts = Encoded[lines[k]]
                          /\ events[e].line = Stripped[lines[k]]
                  ELSE of = {}

\* C9's case: a parsed file of three lines in which a line in each format
\* became an event and a line with an invalid date was skipped.
C9_Witness ==
    /\ pc = "identify_milestones"
    /\ Len(lines) = 3 /\ Len(events) = 2
    /\ lines[1] = "24/12/25 01:02:03 b"
    /\ lines[2] = "2024-13-01 10:00:00 then 2024-12-24 21:30:04"
    /\ events[2].line_num = 3 /\ events[2].ts = At(2024, 2, 29, 23, 59, 59)

----------------------------------------------------------------------------
\* properties of the ".*" phrases

WildcardNames == {"first_task_started", "job_finished", "validation_complete"}

\* the branches with a phrase that holds the text ".*"
WildcardRules == {r \in RuleIds : \E p \in Rules[r].any \cup Rules[r].also : Contains(p, ".*")}

\* A milestone of a ".*" branch is recorded only by a line that holds one of
\* the branch's phrases character for character.
RecordedByLiteralPhrase ==
    \A i \in 1..Len(milestones) :
        milestones[i].name \in WildcardNames =>
            \E k \in 1..Len(events) :
                /\ events[k].ts = milestones[i].ts
                /\ \E p \in Rules[RuleOf(milestones[i].name)].any : Contains(events[k].line, p)

\* C10 as stated: the ".*" phrases are matched as literal text, and exactly two
\* branches of the chain hold such a phrase.
C10_LiteralInTwoRules ==
    /\ RecordedByLiteralPhrase
    /\ Cardinality(WildcardRules) = 2

\* C10 amended: the ".*" phrases are matched as literal text, and exactly three
\* branches of the chain hold such a phrase: those of first_task_started,
\* job_finished and validation_complete.
C10_LiteralInThreeRules ==
    /\ RecordedByLiteralPhrase
    /\ Cardinality(WildcardRules) = 3
    /\ {Rules[r].name : r \in WildcardRules} = WildcardNames

\* C10's case: the three messages the ".*" phrases were written for have been
\* scanned and none of the three milestones is recorded.
C10_Witness ==
    /\ pc = "generate_report"
    /\ Len(events) = 3
    /\ Contains(events[1].line, "Submitting 4 missing tasks")
    /\ Contains(events[2].line, "ResultStage 0 finished")
    /\ Contains(events[3].line, "validation checks passed")
    /\ milestones = <<>>

====
